---- MODULE Spec2Model ----
(***************************************************************************)
(* The crawl / clean / analyse pipeline of the Books-to-Scrape dashboard   *)
(* (src/streamlit_app.py, src/try.py) as a state machine.                  *)
(*                                                                         *)
(* Texts (scraped strings) are sequences of tokens; a token is a string    *)
(* that stands for one character or for one literal the code searches for. *)
(* Time is counted in tenths of a second.                                  *)
(***************************************************************************)
EXTENDS Integers, Sequences, FiniteSets, TLC

VARIABLES
    pc,               \* position of the pipeline
    pages_to_scrape,  \* argument of scrape_books
    page,             \* loop variable of `for page in range(1, pages_to_scrape + 1)`
    response,         \* listing response held by scrape_books
    books,            \* soup.find_all('article', class_='product_pod')
    book_idx,         \* position of `for book in books` (1-based)
    cur,              \* listing-derived locals of the current book
    book_response,    \* detail response held by scrape_books
    all_books,        \* the list scrape_books appends to
    slept,            \* tenths of a second slept since the last request completed
    log,              \* history: every requests.get issued, in order
    error,            \* the exception that left the pipeline, "none" if none
    books_df,         \* the DataFrame scrape_books returns
    cleaned_df,       \* the DataFrame clean_data returns
    analysis_results, \* the dict analyze_data returns
    slider,           \* st.sidebar.slider("Number of pages to scrape", 1, 5, 2)
    scrape_cache,     \* what @st.cache_data holds for scrape_books, by argument
    clean_cache,      \* what @st.cache_data holds for clean_data, by argument
    session_state,    \* st.session_state
    db,               \* the Books table of the SQL Server database
    run,              \* history: what the latest script run did
    runs              \* history: number of script runs of the session

vars == <<pc, pages_to_scrape, page, response, books, book_idx, cur, book_response,
          all_books, slept, log, error, books_df, cleaned_df, analysis_results,
          slider, scrape_cache, clean_cache, session_state, db, run, runs>>

sessionVars == <<slider, scrape_cache, clean_cache, session_state, db, run, runs>>

crawlVars == <<pages_to_scrape, page, response, books, book_idx, cur, book_response,
               all_books, slept, log>>

-----------------------------------------------------------------------------
(* Bounds *)

MaxPages == 2      \* largest pages_to_scrape explored
MaxItems == 2      \* most item cards a listing page serves
MaxTextLen == 3    \* longest text explored for the text-parsing functions
MaxRows == 2       \* most rows of a raw collection handed to clean_data

(* Program constants *)

SleepTenths == 5   \* time.sleep(0.5)
DefaultRating == 3 \* .fillna(3)

-----------------------------------------------------------------------------
(* Values *)

\* None / NaN in a DataFrame cell: a text no page can produce.
None == <<"<None>">>

isnull(x) == x = None
notnull(x) == x # None

RECURSIVE SumSeq(_)
SumSeq(s) == IF s = <<>> THEN 0 ELSE Head(s) + SumSeq(Tail(s))

RECURSIVE Pow10(_)
Pow10(n) == IF n = 0 THEN 1 ELSE 10 * Pow10(n - 1)

RECURSIVE Flatten(_)
Flatten(ss) == IF ss = <<>> THEN <<>> ELSE Head(ss) \o Flatten(Tail(ss))

\* All sequences over S of length at most n.
SeqsUpTo(S, n) == UNION {[1..k -> S] : k \in 0..n}

-----------------------------------------------------------------------------
(* Text functions used by scrape_books and clean_data *)

Digits == {"0", "1", "2", "3", "4", "5", "6", "7", "8", "9"}

DigitVal(c) ==
    CASE c = "0" -> 0 [] c = "1" -> 1 [] c = "2" -> 2 [] c = "3" -> 3 [] c = "4" -> 4
      [] c = "5" -> 5 [] c = "6" -> 6 [] c = "7" -> 7 [] c = "8" -> 8 [] c = "9" -> 9

\* The value of a digit text read in base ten (0 for the empty text).
RECURSIVE DigitsVal(_)
DigitsVal(t) ==
    IF t = <<>> THEN 0
    ELSE 10 * DigitsVal(SubSeq(t, 1, Len(t) - 1)) + DigitVal(t[Len(t)])

\* str.strip(): surrounding whitespace removed.
RECURSIVE strip(_)
strip(t) ==
    IF t = <<>> THEN t
    ELSE IF Head(t) = " " THEN strip(Tail(t))
    ELSE IF t[Len(t)] = " " THEN strip(SubSeq(t, 1, Len(t) - 1))
    ELSE t

\* Length of the longest run of digits of t that starts at position j.
RECURSIVE DigitRun(_, _)
DigitRun(t, j) ==
    IF j <= Len(t) /\ t[j] \in Digits THEN 1 + DigitRun(t, j + 1) ELSE 0

\* re.search(r'\((\d+) available\)', t) matches at position j.
MatchAt(t, j) ==
    LET n == DigitRun(t, j + 1) IN
    /\ t[j] = "("
    /\ n >= 1
    /\ j + n + 2 <= Len(t)
    /\ t[j + n + 1] = " available"
    /\ t[j + n + 2] = ")"

\* The group(1) of the leftmost match, <<>> when there is no match.
availability_match(t) ==
    LET hits == {j \in 1..Len(t) : MatchAt(t, j)} IN
    IF hits = {} THEN <<>>
    ELSE LET j == CHOOSE k \in hits : \A h \in hits : k <= h
         IN SubSeq(t, j + 1, j + DigitRun(t, j + 1))

\* Lines 54-57: the availability count scrape_books derives from the card text.
availability_of(text) ==
    LET availability_text == strip(text)
        m == availability_match(availability_text)
    IN  IF m # <<>> THEN DigitsVal(m)
        ELSE IF \E j \in 1..Len(availability_text) : availability_text[j] = "In stock"
             THEN 1 ELSE 0

\* scrape_books returns the DataFrame alone: no diagnostic, no warning count.
warning_count == 0

-----------------------------------------------------------------------------
(* Decimals: a float is m / 10^e with m not a multiple of 10 unless e = 0.   *)

NaN == [m |-> -1, e |-> 0]

RECURSIVE Normal(_)
Normal(d) == IF d.e > 0 /\ d.m % 10 = 0 THEN Normal([m |-> d.m \div 10, e |-> d.e - 1]) ELSE d

DecAdd(a, b) ==
    LET e == IF a.e >= b.e THEN a.e ELSE b.e
    IN  Normal([m |-> a.m * Pow10(e - a.e) + b.m * Pow10(e - b.e), e |-> e])

DecLess(a, b) == a.m * Pow10(b.e) < b.m * Pow10(a.e)

Zero == [m |-> 0, e |-> 0]

\* re.sub(r'[^\d.]', '', s)
strip_currency(t) == SelectSeq(t, LAMBDA c : c \in Digits \/ c = ".")

\* float(s) accepts s, for s made of digits and points only.
float_ok(s) ==
    LET dots == {j \in 1..Len(s) : s[j] = "."} IN
    /\ Cardinality(dots) <= 1
    /\ \E j \in 1..Len(s) : s[j] \in Digits

\* float(s) for such an s.
float(s) ==
    LET dots == {j \in 1..Len(s) : s[j] = "."}
        d    == IF dots = {} THEN Len(s) + 1 ELSE CHOOSE j \in dots : TRUE
        int  == SubSeq(s, 1, d - 1)
        frac == SubSeq(s, d + 1, Len(s))
    IN  Normal([m |-> DigitsVal(int \o frac), e |-> Len(frac)])

\* Line 109: the lambda applied to every cell of a price column.
\* [ok |-> FALSE] stands for the ValueError float() raises.
parse_price(x) ==
    IF notnull(x)
    THEN LET s == strip_currency(x) IN
         IF float_ok(s) THEN [ok |-> TRUE, val |-> float(s)]
         ELSE [ok |-> FALSE, val |-> NaN]
    ELSE [ok |-> TRUE, val |-> Zero]

\* A slip in the table: the fallback of an unknown label is left out (0 for NaN).
rating_map_no_fallback(label) ==
    CASE label = <<"One">> -> 1
      [] label = <<"Two">> -> 2
      [] label = <<"Three">> -> 3
      [] label = <<"Four">> -> 4
      [] label = <<"Five">> -> 5
      [] OTHER -> 0

\* Lines 111-112: rating_map and .fillna(3).
rating_map(label) ==
    CASE label = <<"One">> -> 1
      [] label = <<"Two">> -> 2
      [] label = <<"Three">> -> 3
      [] label = <<"Four">> -> 4
      [] label = <<"Five">> -> 5
      [] OTHER -> DefaultRating

\* int(s) of astype(int) accepts s; a cell that is already an int is kept.
IntZero == <<"<int 0>">>
int_ok(x) == x = IntZero \/ (x # <<>> /\ \A j \in 1..Len(x) : x[j] \in Digits)
int(x) == IF x = IntZero THEN 0 ELSE DigitsVal(x)

-----------------------------------------------------------------------------
(* The site: what the server can answer to the requests of scrape_books *)

PriceFixture == << <<"£", "5", "1", ".", "7", "7">>, <<"£", "5", "3", ".", "7", "4">>,
                   <<"£", "5", "0", ".", "1", "0">> >>
RatingFixture == << <<"Three">>, <<"One">>, <<"Five">> >>
AvailFixture == << <<" ", "In stock", " ">>,
                   <<"In stock", " ", "(", "2", "2", " available", ")">>,
                   <<"Out of stock">> >>

Pick(fixture, p, i) == fixture[((p + i) % Len(fixture)) + 1]

\* The i-th article.product_pod of listing page p.
Card(p, i) ==
    [ title             |-> <<"book", ToString(p), ToString(i)>>,
      price             |-> Pick(PriceFixture, p, i),
      rating            |-> Pick(RatingFixture, p, i),
      availability_text |-> Pick(AvailFixture, p, i),
      href              |-> <<"book", ToString(p), ToString(i), "index.html">> ]

\* The product page behind the link url.
DetailPage(url) ==
    [ description    |-> <<" ", "about">> \o SubSeq(url, 1, 3) \o <<" ">>,
      upc            |-> <<"upc">> \o SubSeq(url, 2, 3),
      product_type   |-> <<"Books">>,
      price_excl_tax |-> <<"£", "5", "1", ".", "7", "7">>,
      price_incl_tax |-> <<"£", "5", "1", ".", "7", "7">>,
      tax            |-> <<"£", "0", ".", "0", "0">>,
      num_reviews    |-> <<"0">> ]

NoResponse == [status |-> 0, cards |-> <<>>, body |-> "none", page |-> DetailPage(<<"-", "-", "-">>)]

\* status 0: requests.get raised (connection error); 404 and 503 carry an
\* error page, which has no item card; a 200 page carries k cards (k = 0: the
\* item-card structure is absent).
ListingResponses(p) ==
    {NoResponse}
    \cup {[NoResponse EXCEPT !.status = st, !.body = "error_page"] : st \in {404, 503}}
    \cup {[NoResponse EXCEPT !.status = 200, !.body = "listing",
                             !.cards = [i \in 1..k |-> Card(p, i)]] : k \in 0..MaxItems}

\* A 200 product page is complete, or lacks the meta description, or lacks
\* one of the six labelled rows; an error page has neither.
DetailResponses(url) ==
    {NoResponse}
    \cup {[NoResponse EXCEPT !.status = st, !.body = "error_page"] : st \in {404, 503}}
    \cup {[NoResponse EXCEPT !.status = 200, !.body = b, !.page = DetailPage(url)] :
              b \in {"complete", "no_meta", "no_row"}}

NoBook == [title |-> <<>>, price |-> <<>>, rating |-> <<>>, availability |-> 0, book_url |-> <<>>]

NoFrame == [has_columns |-> FALSE, rows |-> <<>>]

\* pd.DataFrame(rows): the columns are the keys of the rows, none for no row.
DataFrame(rows) == [has_columns |-> rows # <<>>, rows |-> rows]

NoAnalysis ==
    [ average_price |-> [sum |-> NaN, n |-> 0], max_price |-> NaN, min_price |-> NaN,
      total_available |-> 0,
      rating_distribution |-> [r \in {} |-> 0], price_by_rating |-> [r \in {} |-> NaN] ]

LogEntry(kind, url, r) ==
    [ kind |-> kind, url |-> url, status |-> r.status, body |-> r.body,
      n_cards |-> Len(r.cards), slept_before |-> slept, parsed |-> FALSE ]

MarkParsed(l) == [l EXCEPT ![Len(l)].parsed = TRUE]

-----------------------------------------------------------------------------
(* The session: widgets, caches, st.session_state and the database *)

\* The default of the page slider.
DefaultPages == 2

\* st.session_state without 'cleaned_df'.
EmptySession == [has_cleaned_df |-> FALSE, books_df |-> NoFrame, cleaned_df |-> NoFrame]

NoRun ==
    [ crawled |-> FALSE, pages |-> 0, edition |-> 0, n_cards |-> 0, requests |-> 0,
      raised |-> "none", db_fail |-> "none" ]

EmptyDb == [table |-> FALSE, rows |-> <<>>]

\* No script run yet: the slider at its default, nothing cached or stored.
NoSession ==
    /\ slider = DefaultPages
    /\ scrape_cache = [n \in {} |-> NoFrame]
    /\ clean_cache = {}
    /\ session_state = EmptySession
    /\ db = EmptyDb
    /\ run = NoRun
    /\ runs = 0

-----------------------------------------------------------------------------
(* scrape_books, statement by statement *)

Init ==
    /\ pc = "for_page"
    /\ pages_to_scrape \in 1..MaxPages
    /\ page = 1
    /\ response = NoResponse
    /\ books = <<>>
    /\ book_idx = 0
    /\ cur = NoBook
    /\ book_response = NoResponse
    /\ all_books = <<>>
    /\ slept = 0
    /\ log = <<>>
    /\ error = "none"
    /\ books_df = NoFrame
    /\ cleaned_df = NoFrame
    /\ analysis_results = NoAnalysis
    /\ NoSession

\* Lines 43-44: response = requests.get(url) for the next page of the range.
ListingGet ==
    /\ pc = "for_page"
    /\ page <= pages_to_scrape
    /\ \E r \in ListingResponses(page) :
          /\ log' = Append(log, LogEntry("listing", <<"page", ToString(page)>>, r))
          /\ IF r.status = 0
             THEN /\ pc' = "raised"
                  /\ error' = "ConnectionError"
                  /\ UNCHANGED response
             ELSE /\ pc' = "parse_listing"
                  /\ response' = r
                  /\ UNCHANGED error
    /\ slept' = 0
    /\ UNCHANGED <<pages_to_scrape, page, books, book_idx, cur, book_response, all_books,
                   books_df, cleaned_df, analysis_results>>
    /\ UNCHANGED sessionVars

\* Lines 45-47: the response text is parsed whatever its status;
\* find_all gives the cards of the page, none on an error page.
ListingParse ==
    /\ pc = "parse_listing"
    /\ books' = response.cards
    /\ book_idx' = 1
    /\ log' = MarkParsed(log)
    /\ pc' = "for_book"
    /\ UNCHANGED <<pages_to_scrape, page, response, cur, book_response, all_books, slept,
                   error, books_df, cleaned_df, analysis_results>>
    /\ UNCHANGED sessionVars

\* Lines 50-59: title, price, rating, availability and link of one card.
listing_fields(book) ==
    [ title        |-> book.title,
      price        |-> book.price,
      rating       |-> book.rating,
      availability |-> availability_of(book.availability_text),
      book_url     |-> book.href ]

\* Lines 50-59: the listing-derived fields of the next book of the page.
BookListingFields ==
    /\ pc = "for_book"
    /\ book_idx <= Len(books)
    /\ cur' = listing_fields(books[book_idx])
    /\ pc' = "get_detail"
    /\ UNCHANGED <<pages_to_scrape, page, response, books, book_idx, book_response,
                   all_books, slept, log, error, books_df, cleaned_df, analysis_results>>
    /\ UNCHANGED sessionVars

\* Line 60: book_response = requests.get(book_url).
DetailGet ==
    /\ pc = "get_detail"
    /\ \E r \in DetailResponses(cur.book_url) :
          /\ log' = Append(log, LogEntry("detail", cur.book_url, r))
          /\ IF r.status = 0
             THEN /\ pc' = "raised"
                  /\ error' = "ConnectionError"
                  /\ UNCHANGED book_response
             ELSE /\ pc' = "parse_detail"
                  /\ book_response' = r
                  /\ UNCHANGED error
    /\ slept' = 0
    /\ UNCHANGED <<pages_to_scrape, page, response, books, book_idx, cur, all_books,
                   books_df, cleaned_df, analysis_results>>
    /\ UNCHANGED sessionVars

\* The dict of lines 71-83.
BookRecord(listing, detail) ==
    [ title          |-> listing.title,
      price          |-> listing.price,
      rating         |-> listing.rating,
      availability   |-> listing.availability,
      upc            |-> detail.upc,
      product_type   |-> detail.product_type,
      price_excl_tax |-> detail.price_excl_tax,
      price_incl_tax |-> detail.price_incl_tax,
      tax            |-> detail.tax,
      num_reviews    |-> detail.num_reviews,
      description    |-> strip(detail.description) ]

\* A slip in the append: the new record is put in front.
PrependBook(list, record) == <<record>> \o list

\* all_books.append(record)
AppendBook(list, record) == Append(list, record)

\* Lines 61-83: the detail text is parsed whatever its status. Without the
\* meta description find() gives None and None['content'] raises TypeError;
\* without a labelled row None.find_next_sibling raises AttributeError.
DetailParse ==
    /\ pc = "parse_detail"
    /\ log' = MarkParsed(log)
    /\ IF book_response.body = "complete"
       THEN /\ all_books' = AppendBook(all_books, BookRecord(cur, book_response.page))
            /\ pc' = "sleep"
            /\ UNCHANGED error
       ELSE /\ pc' = "raised"
            /\ error' = IF book_response.body = "no_row" THEN "AttributeError" ELSE "TypeError"
            /\ UNCHANGED all_books
    /\ UNCHANGED <<pages_to_scrape, page, response, books, book_idx, cur, book_response,
                   slept, books_df, cleaned_df, analysis_results>>
    /\ UNCHANGED sessionVars

\* Line 85: time.sleep(0.5), then the next book of the page.
Sleep ==
    /\ pc = "sleep"
    /\ slept' = slept + SleepTenths
    /\ book_idx' = book_idx + 1
    /\ pc' = "for_book"
    /\ UNCHANGED <<pages_to_scrape, page, response, books, cur, book_response, all_books,
                   log, error, books_df, cleaned_df, analysis_results>>
    /\ UNCHANGED sessionVars

\* The successor of page in the range of line 41.
NextPageIndex(p) == p + 1

\* Line 49 exhausted: the books of the page are done, the page loop goes on.
NextPage ==
    /\ pc = "for_book"
    /\ book_idx > Len(books)
    /\ page' = NextPageIndex(page)
    /\ pc' = "for_page"
    /\ UNCHANGED <<pages_to_scrape, response, books, book_idx, cur, book_response,
                   all_books, slept, log, error, books_df, cleaned_df, analysis_results>>
    /\ UNCHANGED sessionVars

\* Line 88: return pd.DataFrame(all_books).
Return ==
    /\ pc = "for_page"
    /\ page > pages_to_scrape
    /\ books_df' = DataFrame(all_books)
    /\ pc' = "returned"
    /\ UNCHANGED <<crawlVars, error, cleaned_df, analysis_results>>
    /\ UNCHANGED sessionVars

-----------------------------------------------------------------------------
(* clean_data *)

critical_columns == {"price", "title", "rating"}
price_columns == {"price", "price_excl_tax", "price_incl_tax", "tax"}

NoDescription == <<"No description">>

\* The subsequence of s at the positions in keep, in order.
RECURSIVE Keep(_, _, _)
Keep(s, keep, j) ==
    IF j > Len(s) THEN <<>>
    ELSE (IF j \in keep THEN <<s[j]>> ELSE <<>>) \o Keep(s, keep, j + 1)

\* Line 98: df.dropna(subset=critical_columns).
dropna(rows) == SelectSeq(rows, LAMBDA r : \A c \in critical_columns : notnull(r[c]))

\* Lines 99-102: fillna of description and num_reviews (the latter with the int 0).
fill_defaults(rows) ==
    [j \in 1..Len(rows) |->
        [rows[j] EXCEPT !.description = IF isnull(@) THEN NoDescription ELSE @,
                        !.num_reviews = IF isnull(@) THEN IntZero ELSE @]]

\* Line 104: df.drop_duplicates(): a row equal to an earlier row is dropped.
drop_duplicates(rows) ==
    Keep(rows, {j \in 1..Len(rows) : \A i \in 1..(j - 1) : rows[i] # rows[j]}, 1)

\* Lines 106-118 for one row, once every conversion is known to succeed.
convert(r) ==
    [ title          |-> r.title,
      price          |-> parse_price(r.price).val,
      rating         |-> rating_map(r.rating),
      availability   |-> r.availability,
      upc            |-> r.upc,
      product_type   |-> r.product_type,
      price_excl_tax |-> parse_price(r.price_excl_tax).val,
      price_incl_tax |-> parse_price(r.price_incl_tax).val,
      tax            |-> parse_price(r.tax).val,
      num_reviews    |-> int(r.num_reviews),
      description    |-> strip(r.description) ]

\* clean_data(df): [error |-> "none", df |-> the cleaned frame], or the
\* exception that leaves it. dropna raises KeyError on a frame without the
\* critical columns (pd.DataFrame([]) has none).
clean_data(df) ==
    IF ~df.has_columns THEN [error |-> "KeyError", df |-> NoFrame]
    ELSE LET rows == drop_duplicates(fill_defaults(dropna(df.rows))) IN
         IF \E j \in 1..Len(rows) :
               \/ \E c \in price_columns : ~parse_price(rows[j][c]).ok
               \/ ~int_ok(rows[j].num_reviews)
         THEN [error |-> "ValueError", df |-> NoFrame]
         ELSE [error |-> "none",
               df |-> [has_columns |-> TRUE, rows |-> [j \in 1..Len(rows) |-> convert(rows[j])]]]

\* cleaned_df = clean_data(books_df), try.py 118 / streamlit_app.py 308.
CleanData ==
    /\ pc = "returned"
    /\ LET res == clean_data(books_df) IN
       /\ error' = res.error
       /\ cleaned_df' = res.df
       /\ pc' = IF res.error = "none" THEN "cleaned" ELSE "raised"
    /\ UNCHANGED <<crawlVars, books_df, analysis_results>>
    /\ UNCHANGED sessionVars

-----------------------------------------------------------------------------
(* analyze_data *)

\* Series.mean(): the sum and the count it is divided by; NaN for no value.
MeanNaN == [sum |-> NaN, n |-> 0]

RECURSIVE DecSum(_)
DecSum(s) == IF s = <<>> THEN Zero ELSE DecAdd(Head(s), DecSum(Tail(s)))

mean(s) == IF s = <<>> THEN MeanNaN ELSE [sum |-> DecSum(s), n |-> Len(s)]

\* Series.max() / Series.min(): NaN for no value.
max(s) == IF s = <<>> THEN NaN
          ELSE s[CHOOSE j \in 1..Len(s) : \A i \in 1..Len(s) : ~DecLess(s[j], s[i])]
min(s) == IF s = <<>> THEN NaN
          ELSE s[CHOOSE j \in 1..Len(s) : \A i \in 1..Len(s) : ~DecLess(s[i], s[j])]

Column(rows, c) == [j \in 1..Len(rows) |-> rows[j][c]]

\* df['rating'].value_counts().sort_index(): one entry per rating that occurs.
value_counts(rows) ==
    [r \in {rows[j].rating : j \in 1..Len(rows)} |->
        Cardinality({j \in 1..Len(rows) : rows[j].rating = r})]

\* df.groupby('rating')['price'].mean(): one entry per rating that occurs.
price_by_rating(rows) ==
    [r \in {rows[j].rating : j \in 1..Len(rows)} |->
        mean(Column(SelectSeq(rows, LAMBDA x : x.rating = r), "price"))]

\* Lines 125-133.
analyze_data(df) ==
    [ average_price       |-> mean(Column(df.rows, "price")),
      max_price           |-> max(Column(df.rows, "price")),
      min_price           |-> min(Column(df.rows, "price")),
      total_available     |-> SumSeq(Column(df.rows, "availability")),
      rating_distribution |-> value_counts(df.rows),
      price_by_rating     |-> price_by_rating(df.rows) ]

AnalyzeData ==
    /\ pc = "cleaned"
    /\ analysis_results' = analyze_data(cleaned_df)
    /\ pc' = "analyzed"
    /\ UNCHANGED <<crawlVars, error, books_df, cleaned_df>>
    /\ UNCHANGED sessionVars

-----------------------------------------------------------------------------
(* Specifications *)

\* One run of the pipeline from the call of scrape_books.
Next ==
    \/ ListingGet
    \/ ListingParse
    \/ BookListingFields
    \/ DetailGet
    \/ DetailParse
    \/ Sleep
    \/ NextPage
    \/ Return
    \/ CleanData
    \/ AnalyzeData

Spec == Init /\ [][Next]_vars

-----------------------------------------------------------------------------
(* Properties of the crawl *)

Returned == pc \in {"returned", "cleaned", "analyzed"}

ListingLog == SelectSeq(log, LAMBDA e : e.kind = "listing")
DetailLog == SelectSeq(log, LAMBDA e : e.kind = "detail")

\* A detail request whose fetch or whose field extraction failed.
DetailFailed(e) == e.kind = "detail" /\ e.body # "complete"

\* A listing request that failed: not fetched, non-success status, or no item card.
ListingFailed(e) == e.kind = "listing" /\ (e.status # 200 \/ e.n_cards = 0)

\* The response of request j has been dealt with by the crawl.
Handled(j) == log[j].parsed \/ log[j].status = 0 \/ j < Len(log)

DetailAbsent(r) ==
    /\ isnull(r.upc) /\ isnull(r.product_type) /\ isnull(r.price_excl_tax)
    /\ isnull(r.price_incl_tax) /\ isnull(r.tax) /\ isnull(r.num_reviews)
    /\ isnull(r.description)

\* C1: a detail fetch or extraction failure for one item does not abort the
\* crawl; every requested item is recorded, the failed ones with their listing
\* fields and absent detail fields, and the warning count is the number of
\* failed detail fetches.
C1_DetailFailureNonFatal ==
    /\ \A j \in 1..Len(log) : DetailFailed(log[j]) /\ Handled(j) => pc # "raised"
    /\ Returned =>
          /\ Len(books_df.rows) = Len(DetailLog)
          /\ \A j \in 1..Len(DetailLog) :
                /\ books_df.rows[j].title = SubSeq(DetailLog[j].url, 1, 3)
                /\ DetailFailed(DetailLog[j]) => DetailAbsent(books_df.rows[j])
          /\ warning_count = Cardinality({j \in 1..Len(DetailLog) : DetailFailed(DetailLog[j])})

\* The minimum delay between two requests of a run, in tenths of a second.
MinDelayTenths == SleepTenths

\* C2: between the completion of a request and the start of the next request
\* of the same run the minimum delay elapses, whatever the two requests are.
C2_MinDelayBetweenRequests ==
    \A j \in 2..Len(log) : log[j].slept_before >= MinDelayTenths

\* The record the crawl is expected to hold for the i-th card of page p.
ExpectedFields(p, i) ==
    [ title  |-> Card(p, i).title,
      price  |-> Card(p, i).price,
      rating |-> Card(p, i).rating,
      upc    |-> DetailPage(Card(p, i).href).upc ]

FieldsOf(r) == [title |-> r.title, price |-> r.price, rating |-> r.rating, upc |-> r.upc]

\* C3: listing pages are fetched in the order 1..N, and the returned
\* collection lists the items page by page in that order, within a page in
\* document order, each record with the detail fields of its own item.
C3_CatalogOrder ==
    /\ \A j \in 1..Len(ListingLog) : ListingLog[j].url = <<"page", ToString(j)>>
    /\ Returned =>
          /\ Len(ListingLog) = pages_to_scrape
          /\ [j \in 1..Len(books_df.rows) |-> FieldsOf(books_df.rows[j])]
               = Flatten([p \in 1..pages_to_scrape |->
                            [i \in 1..ListingLog[p].n_cards |-> ExpectedFields(p, i)]])

\* C3 witness: a two-page crawl has returned at least three records.
C3_Witness ==
    /\ pc = "returned"
    /\ pages_to_scrape >= 2
    /\ Len(books_df.rows) >= 3
    /\ \A j \in 1..Len(ListingLog) : ListingLog[j].n_cards >= 1

\* C4: a listing page that cannot be fetched, has a non-success status or has
\* no item card aborts the run: the crawl never returns a collection then.
C4_ListingFailureFatal ==
    /\ Returned => \A j \in 1..Len(log) : ~ListingFailed(log[j])
    /\ \A j \in 1..Len(log) : ListingFailed(log[j]) /\ Handled(j) => pc = "raised"

Transient(e) == e.status = 0 \/ e.status = 503

\* C10: a transient failure is retried, a 4xx status surfaces at once as an
\* error, exhausted retries reach the caller as an error, and no failed
\* response is parsed as a page.
C10_RetryPolicy ==
    /\ \A j \in 1..Len(log) : log[j].parsed => log[j].status = 200
    /\ \A j \in 1..Len(log) : log[j].status = 404 /\ Handled(j) => pc = "raised"
    /\ \A j \in 1..(Len(log) - 1) : Transient(log[j]) => log[j + 1].url = log[j].url
    /\ \A j \in 1..Len(log) :
          Transient(log[j]) /\ j = Len(log) /\ pc = "raised"
              => j > 1 /\ log[j - 1].url = log[j].url

-----------------------------------------------------------------------------
(* clean_data and analyze_data on a given raw collection *)

BaseRow ==
    [ title          |-> <<"A">>,
      price          |-> <<"£", "5">>,
      rating         |-> <<"Three">>,
      availability   |-> 2,
      upc            |-> <<"u">>,
      product_type   |-> <<"Books">>,
      price_excl_tax |-> <<"£", "5">>,
      price_incl_tax |-> <<"£", "5">>,
      tax            |-> <<"£", "0">>,
      num_reviews    |-> <<"0">>,
      description    |-> <<"d">> ]

\* The rows of the collections clean_data is explored on.
SampleRows ==
    {[BaseRow EXCEPT !.price = p, !.rating = r, !.description = d] :
        p \in {<<"£", "5">>, <<"5">>, None},
        r \in {<<"Three">>, <<"Zero">>, <<"Four">>},
        d \in {<<"d">>, <<"e">>, None}}

RawCollections ==
    {NoFrame} \cup {[has_columns |-> TRUE, rows |-> rs] : rs \in SeqsUpTo(SampleRows, MaxRows)}

CurrencyChars == {"£", "5", "0", "."}
CurrencyTexts == SeqsUpTo(CurrencyChars, MaxTextLen)
RatingLabels == {<<"One">>, <<"Two">>, <<"Three">>, <<"Four">>, <<"Five">>,
                 <<"Zero">>, <<"three">>, <<>>}

\* One row, one of its cells ranging over every text of its column.
RowInputs ==
    {[BaseRow EXCEPT ![c] = t] : c \in price_columns, t \in CurrencyTexts \cup {None}}
    \cup {[BaseRow EXCEPT !.rating = l] : l \in RatingLabels \cup {None}}

\* scrape_books is not running; clean_data is about to be called on df.
CleanCall(df) ==
    /\ pc = "returned"
    /\ pages_to_scrape = 1
    /\ page = 1
    /\ response = NoResponse
    /\ books = <<>>
    /\ book_idx = 0
    /\ cur = NoBook
    /\ book_response = NoResponse
    /\ all_books = <<>>
    /\ slept = 0
    /\ log = <<>>
    /\ error = "none"
    /\ books_df = df
    /\ cleaned_df = NoFrame
    /\ analysis_results = NoAnalysis
    /\ NoSession

InitClean == \E df \in RawCollections : CleanCall(df)

InitRow == \E r \in RowInputs : CleanCall(DataFrame(<<r>>))

NextClean ==
    \/ CleanData
    \/ AnalyzeData

SpecClean == InitClean /\ [][NextClean]_vars

SpecRow == InitRow /\ [][NextClean]_vars

Cleaned == pc \in {"cleaned", "analyzed"}

\* C5: the cleaned collection has no two records with the same normalized
\* fields, and two raw records that differ only in description are both kept.
C5_NoDuplicateNormalized ==
    Cleaned =>
       /\ \A i, j \in 1..Len(cleaned_df.rows) :
             i < j => cleaned_df.rows[i] # cleaned_df.rows[j]
       /\ LET raw == dropna(books_df.rows) IN
          \A i, j \in 1..Len(raw) :
             (/\ i < j
              /\ raw[i].description # raw[j].description
              /\ [raw[i] EXCEPT !.description = <<>>] = [raw[j] EXCEPT !.description = <<>>])
                => Len(cleaned_df.rows) >= 2

HasDigit(t) == \E j \in 1..Len(t) : t[j] \in Digits

\* C6: currency parsing never raises; a text without digits gives 0.0, the
\* result is non-negative, and the currency sign does not change the result.
C6_CurrencyParsingTotal ==
    pc \in {"cleaned", "raised", "analyzed"} =>
       /\ error = "none"
       /\ \A c \in price_columns :
             LET t == books_df.rows[1][c] IN
             /\ notnull(t) => parse_price(<<"£">> \o t) = parse_price(t)
             /\ Len(cleaned_df.rows) = 1 =>
                   /\ cleaned_df.rows[1][c].m >= 0
                   /\ ~HasDigit(t) => cleaned_df.rows[1][c] = Zero

\* The rating the fixed table gives, 3 for a label outside it.
ExpectedRating(l) ==
    IF l = <<"One">> THEN 1 ELSE IF l = <<"Two">> THEN 2 ELSE IF l = <<"Three">> THEN 3
    ELSE IF l = <<"Four">> THEN 4 ELSE IF l = <<"Five">> THEN 5 ELSE 3

C9_AggregatorWellDefined ==
    pc = "analyzed" =>
       /\ DOMAIN analysis_results.rating_distribution = 1..5
       /\ \A r \in 1..5 :
             analysis_results.rating_distribution[r]
                = Cardinality({j \in 1..Len(cleaned_df.rows) : cleaned_df.rows[j].rating = r})
       /\ cleaned_df.rows = <<>> =>
             /\ analysis_results.total_available = 0
             /\ analysis_results.average_price # MeanNaN
             /\ DOMAIN analysis_results.price_by_rating = {}

-----------------------------------------------------------------------------
(* The availability count of one card, over the texts a card can carry *)

MaxDigits == 2     \* most digits of an availability count explored

PhraseTokens == {"In stock", "Out of stock", " ", "Unavailable"}

\* A count in parentheses, whole or with a part missing.
CountTexts ==
    {<<>>} \cup
    {open \o d \o <<" available">> \o close :
        open \in {<<"(">>, <<>>}, d \in SeqsUpTo({"2", "0"}, MaxDigits),
        close \in {<<")">>, <<>>}}

AvailTexts == {a \o b : a \in SeqsUpTo(PhraseTokens, 2), b \in CountTexts}

\* The crawl has parsed page 1 of 1, whose one card carries the text t.
InitAvail ==
    \E t \in AvailTexts :
       LET card == [Card(1, 1) EXCEPT !.availability_text = t]
           r == [NoResponse EXCEPT !.status = 200, !.body = "listing", !.cards = <<card>>]
       IN
       /\ pc = "for_book"
       /\ pages_to_scrape = 1
       /\ page = 1
       /\ response = r
       /\ books = <<card>>
       /\ book_idx = 1
       /\ cur = NoBook
       /\ book_response = NoResponse
       /\ all_books = <<>>
       /\ slept = 0
       /\ log = <<[LogEntry("listing", <<"page", "1">>, r) EXCEPT !.parsed = TRUE,
                                                                 !.slept_before = 0]>>
       /\ error = "none"
       /\ books_df = NoFrame
       /\ cleaned_df = NoFrame
       /\ analysis_results = NoAnalysis
       /\ NoSession

NextAvail == BookListingFields

SpecAvail == InitAvail /\ [][NextAvail]_vars

\* "In stock (N available)": the count form, with its N.
IsCountForm(t) ==
    /\ Len(t) >= 6
    /\ SubSeq(t, 1, 3) = <<"In stock", " ", "(">>
    /\ SubSeq(t, Len(t) - 1, Len(t)) = <<" available", ")">>
    /\ \A j \in 4..(Len(t) - 2) : t[j] \in Digits

\* C8: "In stock (N available)" gives N, "In stock" gives 1, "Out of stock"
\* gives 0, any other text gives 0 with a recorded diagnostic; the count is a
\* non-negative integer. Surrounding whitespace is not part of the phrase.
C8_AvailabilityParsing ==
    pc = "get_detail" =>
       LET t == strip(books[1].availability_text)
           a == cur.availability
       IN
       /\ a \in Nat
       /\ IsCountForm(t) => a = DigitsVal(SubSeq(t, 4, Len(t) - 2))
       /\ t = <<"In stock">> => a = 1
       /\ t = <<"Out of stock">> => a = 0
       /\ ~IsCountForm(t) /\ t # <<"In stock">> /\ t # <<"Out of stock">>
             => a = 0 /\ warning_count >= 1

-----------------------------------------------------------------------------
(* Script runs of a session of try.py: cached scrape_books and clean_data *)

MaxEditions == 2   \* distinct contents the site takes over time
MaxRuns == 3       \* script runs of one session explored

\* The site at the time of one run: which edition of the catalogue it
\* serves, how many cards a listing page has, whether it answers at all.
Sites == [edition : 1..MaxEditions, n_cards : 0..MaxItems, up : BOOLEAN]

\* The i-th card of page p on that site: prices change with the edition.
CardAt(site, p, i) == [Card(p, i) EXCEPT !.price = Pick(PriceFixture, p + site.edition, i)]

\* scrape_books(n) run to its end against one site: the frame it returns and
\* the number of requests it issues, or the exception of the first request.
scrape_books(n, site) ==
    IF ~site.up
    THEN [error |-> "ConnectionError", df |-> NoFrame, requests |-> 1]
    ELSE [ error |-> "none",
           df |-> DataFrame(Flatten(
                     [p \in 1..n |->
                        [i \in 1..site.n_cards |->
                           BookRecord(listing_fields(CardAt(site, p, i)),
                                      DetailPage(CardAt(site, p, i).href))]])),
           requests |-> n + n * site.n_cards ]

\* @st.cache_data on scrape_books (try.py 32): a call with an argument seen
\* before returns the stored frame and runs nothing; a call that raises
\* stores nothing.
cached_scrape_books(cache, n, site) ==
    IF n \in DOMAIN cache
    THEN [error |-> "none", df |-> cache[n], requests |-> 0, cache |-> cache]
    ELSE LET res == scrape_books(n, site) IN
         [ error |-> res.error, df |-> res.df, requests |-> res.requests,
           cache |-> IF res.error = "none"
                     THEN [k \in DOMAIN cache \cup {n} |-> IF k = n THEN res.df ELSE cache[k]]
                     ELSE cache ]

\* @st.cache_data on clean_data (try.py 85): the arguments with a stored result.
cached_clean_data(cache, df) ==
    LET res == clean_data(df) IN
    [ error |-> res.error, df |-> res.df,
      cache |-> IF res.error = "none" THEN cache \cup {df} ELSE cache ]

\* try.py 115-126, one run of the script: the slider reads n, the button
\* is pressed or not, the site is as it is at that time.
TryRun ==
    /\ pc = "script"
    /\ runs < MaxRuns
    /\ \E n \in 1..MaxPages, button \in BOOLEAN, site \in Sites :
          /\ runs = 0 => n = DefaultPages /\ ~button
          /\ slider' = n
          /\ IF button \/ ~session_state.has_cleaned_df
             THEN LET got == cached_scrape_books(scrape_cache, n, site)
                      cln == cached_clean_data(clean_cache, got.df)
                      err == IF got.error # "none" THEN got.error ELSE cln.error
                  IN
                  /\ scrape_cache' = got.cache
                  /\ clean_cache' = IF got.error = "none" THEN cln.cache ELSE clean_cache
                  /\ session_state' =
                        IF got.error # "none" THEN session_state
                        ELSE IF cln.error # "none"
                             THEN [session_state EXCEPT !.books_df = got.df]
                             ELSE [has_cleaned_df |-> TRUE, books_df |-> got.df,
                                   cleaned_df |-> cln.df]
                  /\ run' = [ crawled |-> TRUE, pages |-> n, edition |-> site.edition,
                              n_cards |-> site.n_cards, requests |-> got.requests,
                              raised |-> err, db_fail |-> "none" ]
             ELSE /\ run' = [NoRun EXCEPT !.pages = n]
                  /\ UNCHANGED <<scrape_cache, clean_cache, session_state>>
    /\ runs' = runs + 1
    /\ UNCHANGED <<pc, crawlVars, error, books_df, cleaned_df, analysis_results, db>>

\* A session before its first script run.
InitSession ==
    /\ pc = "script"
    /\ pages_to_scrape = DefaultPages
    /\ page = 1
    /\ response = NoResponse
    /\ books = <<>>
    /\ book_idx = 0
    /\ cur = NoBook
    /\ book_response = NoResponse
    /\ all_books = <<>>
    /\ slept = 0
    /\ log = <<>>
    /\ error = "none"
    /\ books_df = NoFrame
    /\ cleaned_df = NoFrame
    /\ analysis_results = NoAnalysis
    /\ NoSession

NextTry == TryRun

SpecTry == InitSession /\ [][NextTry]_vars

\* The site of the latest run, answering.
RunSite == [edition |-> run.edition, n_cards |-> run.n_cards, up |-> TRUE]

\* C11: every crawl run (the initial load, a press of "Scrape Fresh Data")
\* issues its requests anew, and the collection held after it is the cleaned
\* result of that run's own responses, whatever earlier runs fetched.
C11_FreshRun ==
    run.crawled /\ run.raised = "none" =>
       /\ run.requests = run.pages + run.pages * run.n_cards
       /\ session_state.has_cleaned_df
       /\ session_state.cleaned_df = clean_data(scrape_books(run.pages, RunSite).df).df

-----------------------------------------------------------------------------
(* Script runs of a session of streamlit_app.py: crawl, clean, save, store *)

\* Where the database fails during one save_to_database, if anywhere.
DbFailures == {"none", "connect", "create", "insert"}

\* save_to_database(df), lines 136-181. A failure inside the try is caught
\* and printed. The finally clause calls conn.close(): when get_db_connection
\* raised, conn was never bound and UnboundLocalError leaves the function.
\* The table creation is committed at once; the inserts are committed after
\* the last row, so a failed insert leaves no row of the run.
save_to_database(df, database, fail) ==
    IF fail = "connect"
    THEN [raised |-> "UnboundLocalError", db |-> database, failed |-> "connect"]
    ELSE IF fail = "create"
    THEN [raised |-> "none", db |-> database, failed |-> "create"]
    ELSE IF fail = "insert" /\ df.rows # <<>>
    THEN [raised |-> "none", db |-> [database EXCEPT !.table = TRUE], failed |-> "insert"]
    ELSE [ raised |-> "none",
           db |-> [table |-> TRUE, rows |-> database.rows \o df.rows],
           failed |-> "none" ]

\* Lines 307-310 and 198-201: scrape, clean, save, then store in the session.
\* An exception of any step leaves the block before the later steps.
crawl_and_store(n, site, fail) ==
    LET got == scrape_books(n, site)
        cln == clean_data(got.df)
        sav == save_to_database(cln.df, db, fail)
    IN  IF got.error # "none"
        THEN [raised |-> got.error, db |-> db, session |-> session_state,
              requests |-> got.requests, db_fail |-> "none"]
        ELSE IF cln.error # "none"
        THEN [raised |-> cln.error, db |-> db, session |-> session_state,
              requests |-> got.requests, db_fail |-> "none"]
        ELSE IF sav.raised # "none"
        THEN [raised |-> sav.raised, db |-> sav.db, session |-> session_state,
              requests |-> got.requests, db_fail |-> sav.failed]
        ELSE [raised |-> "none", db |-> sav.db,
              session |-> [session_state EXCEPT !.has_cleaned_df = TRUE, !.cleaned_df = cln.df],
              requests |-> got.requests, db_fail |-> sav.failed]

\* main(), lines 303-312, with show_dashboard, lines 192-202: one run of the
\* script. Without 'cleaned_df' in the session the initial load runs
\* scrape_books() with its default page count; otherwise the dashboard is
\* shown and a pressed button runs scrape_books(pages_to_scrape).
AppRun ==
    /\ pc = "script"
    /\ runs < MaxRuns
    /\ \E n \in 1..MaxPages, button \in BOOLEAN, site \in Sites, fail \in DbFailures :
          /\ ~session_state.has_cleaned_df => n = DefaultPages /\ ~button
          /\ slider' = n
          /\ IF button \/ ~session_state.has_cleaned_df
             THEN LET res == crawl_and_store(n, site, fail) IN
                  /\ session_state' = res.session
                  /\ db' = res.db
                  /\ run' = [ crawled |-> TRUE, pages |-> n, edition |-> site.edition,
                              n_cards |-> site.n_cards, requests |-> res.requests,
                              raised |-> res.raised, db_fail |-> res.db_fail ]
             ELSE /\ run' = [NoRun EXCEPT !.pages = n]
                  /\ UNCHANGED <<session_state, db>>
    /\ runs' = runs + 1
    /\ UNCHANGED <<pc, crawlVars, error, books_df, cleaned_df, analysis_results,
                   scrape_cache, clean_cache>>

NextApp == AppRun

SpecApp == InitSession /\ [][NextApp]_vars

\* C12: a failure of save_to_database at any step (connection, table
\* creation, insert) is caught inside it: no exception reaches the caller and
\* the run stores its cleaned collection in st.session_state.cleaned_df.
C12_DbFailureKeepsResult ==
    run.crawled /\ run.db_fail # "none" =>
       /\ run.raised = "none"
       /\ session_state.has_cleaned_df
       /\ session_state.cleaned_df = clean_data(scrape_books(run.pages, RunSite).df).df

====
